---- MODULE Spec2Model ----
(***************************************************************************)
(* Analytic distribution report (trytond-analytic_distribution_report).    *)
(*                                                                         *)
(* The model covers analytic.py: the validation of a report's rule list    *)
(* (check_source_target), the derived ratio of a rule (get_ratio) and the  *)
(* recursive allocation of a balance over the rules (spread).              *)
(*                                                                         *)
(* Money is counted in cents: a Decimal with two places is the integer     *)
(* number of its hundredths, so round(x), which quantizes to 0.01, yields  *)
(* an integer.  A ratio is a Python float; it is kept as the reduced       *)
(* fraction it approximates together with the direction of the error of    *)
(* its decimal representation str(float), which is all that the rounding   *)
(* of amount * Decimal(str(ratio)) can observe.                            *)
(***************************************************************************)
EXTENDS Integers, Sequences, FiniteSets, TLC

\* ------------------------------------------------------------------ bounds
NumAccounts == 3   \* analytic accounts 1..NumAccounts
NumReports  == 2   \* reports in the database (get_ratio only)
MaxRules    == 3   \* rules stored for the report
MaxWeight   == 1   \* rule.amount ranges over 0..MaxWeight
MaxCents    == 2   \* |balance| in cents handed to spread
MaxDepth    == 6   \* frames the interpreter allows before RecursionError

Accounts == 1..NumAccounts
Reports  == 1..NumReports
Weights  == 0..MaxWeight
Amounts  == (-MaxCents)..MaxCents
Self     == 1      \* the report whose methods are called

Rule == [report : Reports, source : Accounts, target : Accounts,
         amount : Weights]

VARIABLES
    table,      \* rows of analytic.distribution.report.rule, in stored order
    checked,    \* verdict of check_source_target: "none", "ok" or "error"
    pc,         \* "idle", "running", "done" or "overflow" (RecursionError)
    root,       \* first argument of the outermost spread call (0: none yet)
    amount,     \* second argument of the outermost spread call
    stack,      \* frames of the running spread(root, amount)
    nstack,     \* frames of spread(root, -amount), run in step with stack
    result,     \* mapping returned by spread(root, amount)
    nresult,    \* mapping returned by spread(root, -amount)
    ratios      \* mapping returned by get_ratio, by rule id

vars == <<table, checked, pc, root, amount, stack, nstack, result, nresult,
          ratios>>

\* ----------------------------------------------------------------- helpers
Abs(x) == IF x >= 0 THEN x ELSE -x

RECURSIVE Gcd(_, _)
Gcd(a, b) == IF b = 0 THEN a ELSE Gcd(b, a % b)

\* Value(e, F) is F(e) with e evaluated once, however often F uses it
Value(e, F(_)) == CHOOSE v \in {F(x) : x \in {e}} : TRUE

EmptyMap == [k \in {} |-> 0]

\* self.rules of a report: the ids (row numbers) of its rules
RuleIds(rep) == {i \in DOMAIN table : table[i].report = rep}

\* ------------------------------------------------------------------ ratio
\* The direction in which Decimal(str(float(Decimal(n) / Decimal(d)))) misses
\* the fraction n/d (in lowest terms, d <= 16): above it for the pairs of
\* FloatAbove, below it for those of FloatBelow, exact for the others.
FloatAbove ==
    { <<5, 6>>, <<5, 7>>, <<5, 9>>, <<7, 9>>, <<1, 11>>, <<2, 11>>,
      <<4, 11>>, <<7, 11>>, <<8, 11>>, <<9, 11>>, <<10, 11>>, <<5, 12>>,
      <<7, 12>>, <<1, 13>>, <<2, 13>>, <<3, 13>>, <<4, 13>>, <<5, 13>>,
      <<6, 13>>, <<8, 13>>, <<10, 13>>, <<12, 13>>, <<5, 14>>, <<9, 14>>,
      <<13, 14>>, <<1, 15>>, <<7, 15>>, <<13, 15>> }

FloatBelow ==
    { <<1, 3>>, <<2, 3>>, <<1, 6>>, <<1, 7>>, <<2, 7>>, <<3, 7>>, <<4, 7>>,
      <<6, 7>>, <<1, 9>>, <<2, 9>>, <<4, 9>>, <<8, 9>>, <<3, 11>>,
      <<5, 11>>, <<6, 11>>, <<1, 12>>, <<11, 12>>, <<7, 13>>, <<9, 13>>,
      <<11, 13>>, <<1, 14>>, <<3, 14>>, <<11, 14>>, <<2, 15>>, <<4, 15>>,
      <<8, 15>>, <<11, 15>>, <<14, 15>> }

FloatErr(n, d) ==
    IF <<n, d>> \in FloatAbove THEN 1
    ELSE IF <<n, d>> \in FloatBelow THEN -1
    ELSE 0

\* float(rule.amount / total): the fraction in lowest terms and the direction
\* of the representation error
ToFloat(a, t) ==
    Value(Gcd(a, t), LAMBDA g :
        [num |-> a \div g, den |-> t \div g,
         err |-> FloatErr(a \div g, t \div g)])

ZeroRatio == [num |-> 0, den |-> 1, err |-> 0]

\* cls.search([('report', 'in', report_ids)]): every rule of the reports of
\* the batch, whether or not it is in the batch
SearchedBatchOnly(batch) == batch

Searched(batch) ==
    {j \in DOMAIN table : table[j].report \in {table[i].report : i \in batch}}

\* amounts[report][source] after the accumulation loop over the rules found,
\* from rule j on
RECURSIVE SourceTotalFrom(_, _, _, _)
SourceTotalFrom(j, found, rep, src) ==
    IF j > Len(table) THEN 0
    ELSE IF j \notin found \/ table[j].amount = 0
         THEN SourceTotalFrom(j + 1, found, rep, src)
    ELSE IF table[j].report = rep /\ table[j].source = src
         THEN table[j].amount + SourceTotalFrom(j + 1, found, rep, src)
    ELSE SourceTotalFrom(j + 1, found, rep, src)

\* get_ratio(rules, name) for the batch of rule ids: rule id -> ratio
GetRatio(batch) ==
    [i \in batch |->
        Value(SourceTotalFrom(1, Searched(batch), table[i].report,
                              table[i].source),
              LAMBDA total :
                  IF total # 0 THEN ToFloat(table[i].amount, total)
                  ELSE ZeroRatio)]

\* rule.ratio as spread reads it: the Function field is computed for the
\* records of self.rules
RatioOf(i) == GetRatio(RuleIds(table[i].report))[i]

\* round(amt * Decimal(str(ratio))) for amt >= 0 cents: quantize to one cent,
\* ROUND_HALF_EVEN (the default of the decimal context)
Round(amt, float) ==
    Value(float, LAMBDA ratio :
    LET n == amt * ratio.num
        q == n \div ratio.den
        r == n % ratio.den
    IN  IF 2 * r < ratio.den THEN q
        ELSE IF 2 * r > ratio.den THEN q + 1
        ELSE IF ratio.err > 0 THEN q + 1
        ELSE IF ratio.err < 0 THEN q
        ELSE IF q % 2 = 0 THEN q ELSE q + 1)

\* ------------------------------------------------------------- validation
\* the set rule.target_analytic_account is tested against (line 52): the
\* sources of the rules scanned so far, the current rule's included (line 51)
TestedBeforeAdd(sources, rule) == sources

Tested(sources, rule) == sources \cup {rule.source}

RECURSIVE CheckFrom(_, _, _)
CheckFrom(i, rep, sources) ==
    IF i > Len(table) THEN 0
    ELSE IF table[i].report # rep THEN CheckFrom(i + 1, rep, sources)
    ELSE IF table[i].target \in Tested(sources, table[i]) THEN i
    ELSE CheckFrom(i + 1, rep, sources \cup {table[i].source})

\* check_source_target: the id of the rule on which UserError is raised, 0
\* when the scan ends without raising
CheckNothing(rep) == 0

CheckSourceTarget(rep) == CheckFrom(1, rep, {})

\* ------------------------------------------------------------------ spread
\* sign = 1 if amount >= 0 else -1
SignAlwaysPlus(amt) == 1

Sign(amt) == IF amt >= 0 THEN 1 ELSE -1

\* elif rule.source_analytic_account.id in res (line 70), for the rule
\* table[i] while analytic is being spread
IsChildNever(i, analytic, res) == FALSE

IsChildAnyOrder(i, analytic, res) ==
    \E j \in RuleIds(Self) :
        /\ table[j].source = analytic
        /\ table[j].target = table[i].source

IsChild(i, analytic, res) == table[i].source \in DOMAIN res

\* the loop over self.rules (lines 64-71) from rule i on; st carries res,
\* total, last and children
RECURSIVE ScanFrom(_, _, _, _)
ScanFrom(i, analytic, amt, state) ==
    Value(state, LAMBDA st :
    IF i > Len(table) THEN st
    ELSE IF table[i].report # Self THEN ScanFrom(i + 1, analytic, amt, st)
    ELSE IF table[i].source = analytic THEN
        Value(Round(amt, RatioOf(i)), LAMBDA spread_amount :
            ScanFrom(i + 1, analytic, amt,
                [res      |-> (table[i].target :> spread_amount) @@ st.res,
                 total    |-> st.total + spread_amount,
                 last     |-> table[i].target,
                 children |-> st.children]))
    ELSE IF IsChild(i, analytic, st.res) THEN
        ScanFrom(i + 1, analytic, amt,
                [st EXCEPT !.children = @ \cup {table[i].source}])
    ELSE ScanFrom(i + 1, analytic, amt, st))

Scan(analytic, amt) ==
    ScanFrom(1, analytic, amt,
             [res |-> EmptyMap, total |-> 0, last |-> 0, children |-> {}])

\* lines 72-77: the rounding difference goes to the last matched target; an
\* account without rules keeps the whole amount
Adjust(st, analytic, amt) ==
    IF DOMAIN st.res # {} /\ st.total # amt THEN
        LET res0 == IF st.last \in DOMAIN st.res THEN st.res
                    ELSE (st.last :> 0) @@ st.res
        IN  [res0 EXCEPT ![st.last] = @ + (st.total - amt)]
    ELSE IF DOMAIN st.res = {} THEN (analytic :> amt)
    ELSE st.res

\* lines 59-80 of one call spread(analytic, amt): the frame as it stands
\* when the loop over the children starts
NewFrame(analytic, amt) ==
    Value(Scan(analytic, Abs(amt)), LAMBDA st :
    Value(Adjust(st, analytic, Abs(amt)), LAMBDA res :
        [analytic |-> analytic,
         amount   |-> amt,
         res      |-> [k \in DOMAIN res |-> res[k] * Sign(amt)],
         children |-> st.children,
         cur      |-> 0]))

\* lines 84-85: del res[child.id]; res.update(r)
Merge(res, child, r) ==
    r @@ [k \in (DOMAIN res) \ {child} |-> res[k]]

Top(s) == s[Len(s)]

\* line 83: the call self.spread(child, res[child.id]) pushes a frame
Push(s, child) ==
    Append([s EXCEPT ![Len(s)].cur = child],
           NewFrame(child, Top(s).res[child]))

\* return res of the inner call, then lines 84-85 in the caller
Pop(s) ==
    LET r      == Top(s).res
        n      == Len(s) - 1
        caller == s[n]
    IN  [SubSeq(s, 1, n) EXCEPT
            ![n] = [caller EXCEPT
                      !.res = Merge(caller.res, caller.cur, r),
                      !.children = @ \ {caller.cur},
                      !.cur = 0]]

\* ----------------------------------------------------------------- actions
RuleLists == UNION {[1..n -> {r \in Rule : r.report = Self}] : n \in 0..MaxRules}

Init ==
    /\ table \in RuleLists
    /\ checked = "none"
    /\ pc = "idle"
    /\ root = 0
    /\ amount = 0
    /\ stack = <<>>
    /\ nstack = <<>>
    /\ result = EmptyMap
    /\ nresult = EmptyMap
    /\ ratios = EmptyMap

\* validate(): check_source_target on the report when it is saved
Validate ==
    /\ pc = "idle"
    /\ checked = "none"
    /\ checked' = IF CheckSourceTarget(Self) = 0 THEN "ok" ELSE "error"
    /\ UNCHANGED <<table, pc, root, amount, stack, nstack, result, nresult,
                   ratios>>

\* spreadsheet() calls self.spread(analytic, balance) for a fetched row; the
\* rules may have been written through the rule model, which does not run
\* the report's validation, so a rejected list can be spread as well
CallSpread(analytic, balance) ==
    /\ pc = "idle"
    /\ checked # "none"
    /\ pc' = "running"
    /\ root' = analytic
    /\ amount' = balance
    /\ stack' = <<NewFrame(analytic, balance)>>
    /\ nstack' = <<NewFrame(analytic, -balance)>>
    /\ UNCHANGED <<table, checked, result, nresult, ratios>>

\* the loop over the children takes the next child and calls spread on it
CallChild(child) ==
    /\ pc = "running"
    /\ Top(stack).cur = 0
    /\ child \in Top(stack).children
    /\ Len(stack) < MaxDepth
    /\ stack' = Push(stack, child)
    /\ nstack' = Push(nstack, child)
    /\ UNCHANGED <<table, checked, pc, root, amount, result, nresult, ratios>>

\* the same call when the interpreter's recursion limit is reached
RecursionError ==
    /\ pc = "running"
    /\ Top(stack).cur = 0
    /\ Top(stack).children # {}
    /\ Len(stack) = MaxDepth
    /\ pc' = "overflow"
    /\ UNCHANGED <<table, checked, root, amount, stack, nstack, result,
                   nresult, ratios>>

\* an inner call has no child left and returns to its caller
ReturnChild ==
    /\ pc = "running"
    /\ Len(stack) > 1
    /\ Top(stack).children = {}
    /\ stack' = Pop(stack)
    /\ nstack' = Pop(nstack)
    /\ UNCHANGED <<table, checked, pc, root, amount, result, nresult, ratios>>

\* the outermost call returns res
ReturnRoot ==
    /\ pc = "running"
    /\ Len(stack) = 1
    /\ Top(stack).children = {}
    /\ pc' = "done"
    /\ result' = Top(stack).res
    /\ nresult' = Top(nstack).res
    /\ stack' = <<>>
    /\ nstack' = <<>>
    /\ UNCHANGED <<table, checked, root, amount, ratios>>

Next ==
    \/ Validate
    \/ \E a \in Accounts, b \in Amounts : CallSpread(a, b)
    \/ \E c \in Accounts : CallChild(c)
    \/ RecursionError
    \/ ReturnChild
    \/ ReturnRoot

Spec == Init /\ [][Next]_vars


\* ---------------------------------------------- validation on its own
\* check_source_target reads the sources and targets only: every list of
\* (source, target) pairs, each rule with the same amount
InitValidate ==
    /\ table \in UNION {[1..n -> {r \in Rule : r.report = Self
                                              /\ r.amount = MaxWeight}]
                        : n \in 0..MaxRules}
    /\ checked = "none"
    /\ pc = "idle"
    /\ root = 0
    /\ amount = 0
    /\ stack = <<>>
    /\ nstack = <<>>
    /\ result = EmptyMap
    /\ nresult = EmptyMap
    /\ ratios = EmptyMap

ValidateSpec == InitValidate /\ [][Validate]_vars

\* ------------------------------------------------ termination of spread
\* the steps of a started spread
Run ==
    \/ \E c \in Accounts : CallChild(c)
    \/ RecursionError
    \/ ReturnChild
    \/ ReturnRoot

\* spread is synchronous code: a started call keeps running until it returns
\* or raises
FairSpec == Spec /\ WF_vars(Run)

\* ------------------------------------------------- get_ratio on its own
\* get_ratio reads report, source and amount only: rules of every report
\* over two sources, the target fixed by the source
RatioRule == {r \in Rule : r.source <= 2 /\ r.target = r.source + 1}

InitRatio ==
    /\ table \in UNION {[1..n -> RatioRule] : n \in 0..MaxRules}
    /\ checked = "none"
    /\ pc = "idle"
    /\ root = 0
    /\ amount = 0
    /\ stack = <<>>
    /\ nstack = <<>>
    /\ result = EmptyMap
    /\ nresult = EmptyMap
    /\ ratios = EmptyMap

\* reading rule.ratio on a batch of records calls get_ratio(batch, 'ratio');
\* ratios is the mapping it returns
ReadRatio(batch) ==
    /\ ratios = EmptyMap
    /\ batch # {}
    /\ batch \subseteq DOMAIN table
    /\ ratios' = GetRatio(batch)
    /\ UNCHANGED <<table, checked, pc, root, amount, stack, nstack, result,
                   nresult>>

NextRatio == \E batch \in SUBSET (1..MaxRules) : ReadRatio(batch)

RatioSpec == InitRatio /\ [][NextRatio]_vars

\* ============================================================== properties
\* the source -> target graph of the report's rules
IsSource(a) == \E i \in RuleIds(Self) : table[i].source = a

Targets(S) == {table[i].target : i \in {j \in RuleIds(Self) : table[j].source \in S}}

RECURSIVE Closure(_, _)
Closure(S, n) == IF n = 0 THEN S ELSE Closure(S \cup Targets(S), n - 1)

\* the accounts reached from a over one rule or more
ReachedFrom(a) == Closure(Targets({a}), NumAccounts)

Acyclic == \A a \in Accounts : a \notin ReachedFrom(a)

CycleInGraph == ~Acyclic

CycleThroughRoot == root \in Accounts /\ root \in ReachedFrom(root)

NumSources == Cardinality({table[i].source : i \in RuleIds(Self)})

\* the rules of the report that spread away from a, and the last of them
RulesOf(a) == {i \in RuleIds(Self) : table[i].source = a}

LastRuleOf(a) == CHOOSE i \in RulesOf(a) : \A j \in RulesOf(a) : j <= i

Portion(i) == Round(Abs(amount), RatioOf(i))

RECURSIVE PortionSum(_)
PortionSum(ids) ==
    IF ids = {} THEN 0
    ELSE LET i == CHOOSE x \in ids : TRUE
         IN  Portion(i) + PortionSum(ids \ {i})

Returned == pc = "done" /\ checked = "ok"

\* the sum of the values of a mapping
RECURSIVE SumMap(_, _)
SumMap(f, keys) ==
    IF keys = {} THEN 0
    ELSE LET k == CHOOSE x \in keys : TRUE
         IN  f[k] + SumMap(f, keys \ {k})

Sum(f) == SumMap(f, DOMAIN f)

\* C1: conservation.  For an accepted rule list the values of the mapping
\* spread(root, amount) returns sum to amount.
C1_Conservation == Returned => Sum(result) = amount

\* C2: cycle prevention.  A rule list check_source_target accepts has an
\* acyclic source -> target graph: a list with a cycle of any length, in any
\* stored order, is rejected.
C2_AcceptedIsAcyclic == checked = "ok" => Acyclic

C2_Witness ==
    /\ checked = "ok"
    /\ Len(table) = MaxRules
    /\ \E i, j \in RuleIds(Self) : table[i].target = table[j].source

\* C3: leaves only.  For an accepted list, every key of a frame's res that is
\* the source of some rule is a child still to be recursed into, and no key
\* of the returned mapping is the source of a rule.
C3_LeavesOnly ==
    checked = "ok" =>
        /\ \A n \in DOMAIN stack : \A k \in DOMAIN stack[n].res :
              IsSource(k) => k \in stack[n].children
        /\ pc = "done" => \A k \in DOMAIN result : ~IsSource(k)

C3_Witness ==
    /\ Returned
    /\ \E i \in RulesOf(root) :
          /\ IsSource(table[i].target)
          /\ table[i].target \notin DOMAIN result
    /\ result # EmptyMap

\* C4: sign preservation.  spread(root, -amount) has the keys of
\* spread(root, amount) and the negated values, in every frame of the
\* recursion and in the returned mapping.
Negated(f, g) == DOMAIN f = DOMAIN g /\ \A k \in DOMAIN f : g[k] = -f[k]

C4_SignPreserved ==
    /\ Len(nstack) = Len(stack)
    /\ \A n \in DOMAIN stack : Negated(stack[n].res, nstack[n].res)
    /\ pc = "done" => Negated(result, nresult)

C4_Witness ==
    /\ pc = "done"
    /\ amount < 0
    /\ RulesOf(root) # {}
    /\ \E i \in RulesOf(root) : table[i].target \notin DOMAIN result
    /\ \E k \in DOMAIN result : result[k] < 0 /\ nresult[k] > 0

\* C5: same-target accumulation.  In a spread without children whose
\* portions add up to |amount| (nothing to reconcile), every target holds
\* the sum of the portions of all the rules of root that name it.
C5_Accumulates ==
    ( /\ Returned
      /\ RulesOf(root) # {}
      /\ \A i \in RulesOf(root) : ~IsSource(table[i].target)
      /\ PortionSum(RulesOf(root)) = Abs(amount) )
    => \A t \in DOMAIN result :
          result[t] = Sign(amount)
                      * PortionSum({i \in RulesOf(root) : table[i].target = t})

\* C6: ratio derivation.  Every ratio read is the quotient of the rule's
\* amount by the sum of the amounts of all the rules of its report with its
\* source, whatever batch it was read in, 0.0 when that sum is zero; the
\* quotients of the rules of a source with a non-zero sum add up to 1.
Group(i) ==
    {j \in DOMAIN table : /\ table[j].report = table[i].report
                          /\ table[j].source = table[i].source}

RECURSIVE AmountSum(_)
AmountSum(ids) ==
    IF ids = {} THEN 0
    ELSE LET i == CHOOSE x \in ids : TRUE
         IN  table[i].amount + AmountSum(ids \ {i})

RECURSIVE ShareSum(_, _)
ShareSum(ids, whole) ==
    IF ids = {} THEN 0
    ELSE LET i == CHOOSE x \in ids : TRUE
         IN  ratios[i].num * (whole \div ratios[i].den)
             + ShareSum(ids \ {i}, whole)

C6_Ratio ==
    \A i \in DOMAIN ratios :
        LET whole == AmountSum(Group(i))
        IN  /\ whole = 0 => ratios[i] = ZeroRatio
            /\ whole # 0 =>
                  /\ ratios[i].den > 0
                  /\ whole % ratios[i].den = 0
                  /\ ratios[i].num * whole = table[i].amount * ratios[i].den
                  /\ Group(i) \subseteq DOMAIN ratios
                        => ShareSum(Group(i), whole) = whole

C6_Witness ==
    \E i \in DOMAIN ratios, k \in DOMAIN table :
        /\ k \notin DOMAIN ratios
        /\ k \in Group(i)
        /\ table[k].amount # 0
        /\ ratios[i].num # 0
        /\ \E m \in DOMAIN ratios : AmountSum(Group(m)) = 0

\* C7 as claimed: check_source_target raises exactly when the target of some
\* rule is the source of a rule strictly earlier in the list.
C7_StrictlyEarlier ==
    checked # "none" =>
        ( checked = "error" <=>
            \E i, j \in RuleIds(Self) :
                j < i /\ table[i].target = table[j].source )

\* C7: check_source_target raises exactly when the target of some rule is the
\* source of that rule or of an earlier one (the rule's source joins the set
\* before its target is tested).
C7_EarlierOrSame ==
    checked # "none" =>
        ( checked = "error" <=>
            \E i, j \in RuleIds(Self) :
                j <= i /\ table[i].target = table[j].source )

C7_Witness ==
    /\ checked = "error"
    /\ \E i \in RuleIds(Self) : table[i].target = table[i].source
    /\ ~ \E i, j \in RuleIds(Self) : j < i /\ table[i].target = table[j].source

\* C8: rounding remainder receiver.  In a single-level spread (root has a
\* rule, the targets are distinct, none is a source) every target but the
\* last rule's holds sign * round(|amount| * ratio) and the last rule's
\* target holds sign * (|amount| - the other portions).
C8_Remainder ==
    ( /\ Returned
      /\ RulesOf(root) # {}
      /\ \A i, j \in RulesOf(root) : table[i].target = table[j].target => i = j
      /\ \A i \in RulesOf(root) : ~IsSource(table[i].target) )
    => \A i \in RulesOf(root) :
          /\ table[i].target \in DOMAIN result
          /\ result[table[i].target] =
                IF i # LastRuleOf(root)
                THEN Sign(amount) * Portion(i)
                ELSE Sign(amount)
                     * (Abs(amount) - PortionSum(RulesOf(root) \ {i}))

\* C9: termination.  On an accepted list the recursion is never deeper than
\* the number of distinct sources plus one, and a running spread returns.
C9_Terminates ==
    /\ [](checked = "ok" => Len(stack) <= NumSources + 1)
    /\ ((checked = "ok" /\ pc = "running") ~> (pc = "done"))

C9_Witness ==
    /\ checked = "ok"
    /\ pc = "running"
    /\ Len(stack) = 2
    /\ Top(stack).children = {}

\* the children the scan of p finds: c has been recorded as a target of p by
\* a rule stored before a rule whose source is c
ChildOf(p) ==
    {c \in Accounts \ {p} :
        \E i, j \in RuleIds(Self) :
            /\ i < j
            /\ table[i].source = p /\ table[i].target = c
            /\ table[j].source = c}

RECURSIVE Descent(_, _)
Descent(S, n) ==
    IF n = 0 THEN S
    ELSE Descent(S \cup UNION {ChildOf(p) : p \in S}, n - 1)

\* some account spread in the recursion from a is again its own descendant
ChildLoopFrom(a) ==
    \E p \in Descent({a}, NumAccounts) :
        p \in Descent(ChildOf(p), NumAccounts)

\* C10 as claimed: on a rule list with a cycle through the root, spread
\* never returns.
C10_CycleNeverReturns == ~(pc = "done" /\ CycleThroughRoot)

\* C10: spread fails to return exactly when the children found by the scans
\* loop back, which needs, for each step p -> c of the loop, a rule p -> c
\* stored before a rule of source c; on any other list, cyclic or not, it
\* returns.
C10_LoopOfChildren ==
    /\ pc = "overflow" => ChildLoopFrom(root) /\ CycleInGraph
    /\ pc = "done" => ~ChildLoopFrom(root)

C10_Witness ==
    /\ pc = "overflow"
    /\ CycleThroughRoot

====
